---------------------------- MODULE Spec2Model ----------------------------
(***************************************************************************)
(* Tic-tac-toe game controller (the App component): the 9-cell board, the  *)
(* turn flag, the game mode, the ai-thinking flag, the mute flag, the      *)
(* terminal-sound latch and the 300 ms computer-move timer, together with  *)
(* the two effects that run after every committed render.                  *)
(*                                                                         *)
(* One action is one browser task: the event handler (or timer callback),  *)
(* the render of its batched state updates, and the effects of that render *)
(* (cleanup of the previous effect run first, then the new run) together   *)
(* with the state update the effect itself makes.                          *)
(***************************************************************************)
EXTENDS Integers, Sequences, FiniteSets

\* ---------------------------------------------------------------- bounds
\* Milliseconds that pass in one Tick step.
TickMs == 60
\* Timer handles the model can tell apart at one time.
MaxTimers == 2
\* Where the clock that measures the wait for the computer's move stops.
MaxElapsedMs == 360
\* Terminal-sound calls the model counts in one game.
MaxAnnounced == 2

\* ------------------------------------------------------ program constants
AiDelayMs == 300
DebounceMs == 60

\* null / undefined (an empty cell, "no result" of find, no timer handle).
Null == "null"
Nil == 0 - 1
NoTid == 0

Cells == 0 .. 8
Marks == {"X", "O"}
TimerIds == 1 .. MaxTimers

\* Array(9).fill(null)
EmptyBoard == [i \in Cells |-> Null]

AllBoards == [Cells -> Marks \cup {Null}]

\* ------------------------------------------------------------ rule engine
lines ==
  << <<0, 1, 2>>, <<3, 4, 5>>, <<6, 7, 8>>,
     <<0, 3, 6>>, <<1, 4, 7>>, <<2, 5, 8>>,
     <<0, 4, 8>>, <<2, 4, 6>> >>

\* Variant of lineMatches without the non-empty test of the first cell.
lineMatchesNoEmptyCheck(sq, k) ==
  LET a == lines[k][1]
      b == lines[k][2]
      c == lines[k][3]
  IN  sq[a] = sq[b] /\ sq[a] = sq[c]

\* The test of the scan loop for the k-th triple [a,b,c].
lineMatches(sq, k) ==
  LET a == lines[k][1]
      b == lines[k][2]
      c == lines[k][3]
  IN  sq[a] # Null /\ sq[a] = sq[b] /\ sq[a] = sq[c]

\* The scan loop from the k-th triple on: the mark of the first match.
RECURSIVE scanLines(_, _)
scanLines(sq, k) ==
  IF k > Len(lines) THEN Null
  ELSE IF lineMatches(sq, k) THEN sq[lines[k][1]]
  ELSE scanLines(sq, k + 1)

\* The mark of the first matching triple in scan order, else null.
calculateWinner(sq) == scanLines(sq, 1)

\* squares.every(Boolean)
every(sq) == \A i \in Cells : sq[i] # Null

\* !winner && squares.every(Boolean)
isDraw(winner, sq) == winner = Null /\ every(sq)

\* What the status bar shows for winner and isDraw: a win, a draw, or a turn.
status(winner, draw) ==
  IF winner # Null THEN winner
  ELSE IF draw THEN "draw"
  ELSE "in-progress"

\* The outcome of a board: winner and isDraw computed from it, then shown.
outcome(sq) ==
  LET winner == calculateWinner(sq)
  IN  status(winner, isDraw(winner, sq))

\* --------------------------------------------------------- AI move selector
center == <<4>>
corners == <<0, 2, 6, 8>>
edges == <<1, 3, 5, 7>>

\* board.map((v, i) => v === null ? i : null).filter(i => i !== null)
available(board) == {i \in Cells : board[i] = Null}

\* Variant of pickFrom that takes the first candidate, available or not.
pickFromFirstCandidate(candidates, avail) == candidates[1]

\* candidates.find(i => available.includes(i)); Nil for undefined.
pickFrom(candidates, avail) ==
  IF \E k \in 1 .. Len(candidates) : candidates[k] \in avail
  THEN candidates[CHOOSE k \in 1 .. Len(candidates) :
                    /\ candidates[k] \in avail
                    /\ \A j \in 1 .. (k - 1) : candidates[j] \notin avail]
  ELSE Nil

\* Variant of coalesce with the falsy test of ||, which also skips index 0.
coalesceFalsy(a, b) == IF a # Nil /\ a # 0 THEN a ELSE b

\* a ?? b
coalesce(a, b) == IF a # Nil THEN a ELSE b

\* pickFrom(center) ?? pickFrom(corners) ?? pickFrom(edges)
best(board) ==
  coalesce(pickFrom(center, available(board)),
           coalesce(pickFrom(corners, available(board)),
                    pickFrom(edges, available(board))))

\* The values selectAiMove can return for a board: {Nil} for null, the
\* heuristic pick, or any available cell when the random fallback is taken.
selectAiMove(board) ==
  IF available(board) = {} THEN {Nil}
  ELSE IF best(board) # Nil THEN {best(board)}
  ELSE available(board)

\* --------------------------------------------------------------- the state
VARIABLES
  squares,            \* the board, 0..8 -> "X" | "O" | Null
  xIsNext,            \* the turn flag
  mode,               \* "pvp" | "pve"
  isAiThinking,
  muted,
  terminalPlayedRef,  \* the terminal-sound latch
  timers,             \* pending setTimeout callbacks: [id, left, muted]
  effectTid,          \* the handle the AI effect's cleanup will clear
  sinceMovePlayed,    \* now - lastMovePlayedAtRef, capped at DebounceMs
  sounds,             \* audio elements started by the last operation
  lastOp,             \* the last operation: [op, index, accepted, pend, was]
  placedBy,           \* who wrote each cell: "none" | "human" | "ai"
  sinceHumanMove,     \* ms since the click a pending computer move answers
  announced,          \* playWin / playDraw calls of the current game
  evalOut,            \* result of the last outcome evaluation (SpecPure)
  aiIndex             \* result of the last selectAiMove call (SpecPure)

vars == << squares, xIsNext, mode, isAiThinking, muted, terminalPlayedRef,
           timers, effectTid, sinceMovePlayed, sounds, lastOp, placedBy,
           sinceHumanMove, announced, evalOut, aiIndex >>

pureVars == << evalOut, aiIndex >>

\* The record of an operation: its name, its cell, whether it took effect,
\* and what it found: a computer move pending, and the outcome of the board.
Op(op, index, accepted) ==
  [op |-> op, index |-> index, accepted |-> accepted, pend |-> timers # {},
   was |-> outcome(squares)]

NobodyPlaced == [i \in Cells |-> "none"]

\* xIsNext ? 'X' : 'O'
currentPlayer(xn) == IF xn THEN "X" ELSE "O"

\* Boolean(winner) || isDraw || (mode === 'pve' && isAiThinking)
isBoardDisabled ==
  LET winner == calculateWinner(squares)
  IN  winner # Null \/ isDraw(winner, squares)
        \/ (mode = "pve" /\ isAiThinking)

Init ==
  /\ squares = EmptyBoard
  /\ xIsNext = TRUE
  /\ mode = "pvp"
  /\ isAiThinking = FALSE
  /\ muted \in BOOLEAN
  /\ terminalPlayedRef = FALSE
  /\ timers = {}
  /\ effectTid = NoTid
  /\ sinceMovePlayed = DebounceMs
  /\ sounds = {}
  /\ lastOp = [op |-> "init", index |-> Nil, accepted |-> TRUE, pend |-> FALSE,
               was |-> "in-progress"]
  /\ placedBy = NobodyPlaced
  /\ sinceHumanMove = 0
  /\ announced = << >>
  /\ evalOut = "unset"
  /\ aiIndex = Nil

\* ------------------------------------------------------------------ sound
\* playMove: silent when muted or within the debounce window.
playMove(mu, since) ==
  IF mu \/ since < DebounceMs
  THEN [snd |-> {}, since |-> since]
  ELSE [snd |-> {"move"}, since |-> 0]

playWin(mu) == IF mu THEN {} ELSE {"win"}

playDraw(mu) == IF mu THEN {} ELSE {"draw"}

\* ------------------------------------------------------------------ timers
freeIds(ts) == TimerIds \ {t.id : t \in ts}

newTid(ts) ==
  IF freeIds(ts) = {} THEN NoTid
  ELSE CHOOSE n \in freeIds(ts) : \A m \in freeIds(ts) : n <= m

\* setTimeout(callback, 300); the callback closes over playMove (mu).
setTimeout(ts, mu) ==
  IF newTid(ts) = NoTid THEN ts
  ELSE ts \cup {[id |-> newTid(ts), left |-> AiDelayMs, muted |-> mu]}

clearTimeout(ts, tid) == {t \in ts : t.id # tid}

\* ----------------------------------------------------------------- effects
\* [mode, xIsNext, winner, isDraw, selectAiMove, playMove]: selectAiMove is
\* stable, playMove is re-created exactly when muted changes.
aiEffectDeps(md, xn, winner, draw, mu) == << md, xn, winner, draw, mu >>

\* Variant of aiEffectCleanup for an effect that returns no cleanup.
aiEffectNoCleanup(ts, tid) == ts

\* The cleanup the previous run of the AI effect returned.
aiEffectCleanup(ts, tid) == clearTimeout(ts, tid)

\* Variant of aiEffect whose turn test is inverted.
aiEffectTurnInverted(md, xn, winner, draw, mu, th, ts) ==
  IF md # "pve" THEN [th |-> th, ts |-> ts, tid |-> NoTid]
  ELSE IF winner # Null \/ draw
    THEN [th |-> FALSE, ts |-> ts, tid |-> NoTid]
  ELSE IF xn
    THEN [th |-> TRUE, ts |-> setTimeout(ts, mu), tid |-> newTid(ts)]
  ELSE [th |-> FALSE, ts |-> ts, tid |-> NoTid]

\* The body of the AI effect.
aiEffect(md, xn, winner, draw, mu, th, ts) ==
  IF md # "pve" THEN [th |-> th, ts |-> ts, tid |-> NoTid]
  ELSE IF winner # Null \/ draw
    THEN [th |-> FALSE, ts |-> ts, tid |-> NoTid]
  ELSE IF ~xn
    THEN [th |-> TRUE, ts |-> setTimeout(ts, mu), tid |-> newTid(ts)]
  ELSE [th |-> FALSE, ts |-> ts, tid |-> NoTid]

\* [winner, isDraw, playWin, playDraw]
terminalEffectDeps(winner, draw, mu) == << winner, draw, mu >>

\* Variant of terminalEffect that does not consult the latch.
terminalEffectNoLatch(winner, draw, mu, latch) ==
  IF winner # Null
    THEN [latch |-> TRUE, call |-> <<"win">>, snd |-> playWin(mu)]
  ELSE IF draw
    THEN [latch |-> TRUE, call |-> <<"draw">>, snd |-> playDraw(mu)]
  ELSE [latch |-> FALSE, call |-> << >>, snd |-> {}]

\* The body of the outcome-sound effect.
\* latch: the new terminalPlayedRef; call: the helpers called; snd: the
\* audio they started.
terminalEffect(winner, draw, mu, latch) ==
  IF winner # Null
    THEN IF ~latch
         THEN [latch |-> TRUE, call |-> <<"win">>, snd |-> playWin(mu)]
         ELSE [latch |-> latch, call |-> << >>, snd |-> {}]
  ELSE IF draw
    THEN IF ~latch
         THEN [latch |-> TRUE, call |-> <<"draw">>, snd |-> playDraw(mu)]
         ELSE [latch |-> latch, call |-> << >>, snd |-> {}]
  ELSE [latch |-> FALSE, call |-> << >>, snd |-> {}]

\* The effects of the render of (sq, xn, md, mu), whose winner and isDraw are
\* winner and draw, after the render whose values were winner0 and draw0.
runAiEffect(md, xn, winner, draw, mu, th, ts, winner0, draw0) ==
  IF aiEffectDeps(md, xn, winner, draw, mu)
       # aiEffectDeps(mode, xIsNext, winner0, draw0, muted)
  THEN aiEffect(md, xn, winner, draw, mu, th, aiEffectCleanup(ts, effectTid))
  ELSE [th |-> th, ts |-> ts, tid |-> effectTid]

runTerminalEffect(winner, draw, mu, latch, winner0, draw0) ==
  IF terminalEffectDeps(winner, draw, mu)
       # terminalEffectDeps(winner0, draw0, muted)
  THEN terminalEffect(winner, draw, mu, latch)
  ELSE [latch |-> latch, call |-> << >>, snd |-> {}]

\* The calls so far, with the new ones, counted up to MaxAnnounced.
announce(ann, call) ==
  IF Len(ann) + Len(call) <= MaxAnnounced THEN ann \o call ELSE ann

\* The render that commits a batch of state updates, and its effects; ann is
\* the record of terminal-sound calls the handler leaves.
Render(sq, xn, md, th, mu, latch, ts, snd, ann) ==
  \E winner \in {calculateWinner(sq)}, winner0 \in {calculateWinner(squares)} :
    \E draw \in {isDraw(winner, sq)}, draw0 \in {isDraw(winner0, squares)} :
      \E ai \in {runAiEffect(md, xn, winner, draw, mu, th, ts, winner0, draw0)},
         term \in {runTerminalEffect(winner, draw, mu, latch, winner0, draw0)} :
        /\ squares' = sq
        /\ xIsNext' = xn
        /\ mode' = md
        /\ muted' = mu
        /\ isAiThinking' = ai.th
        /\ timers' = ai.ts
        /\ effectTid' = ai.tid
        /\ terminalPlayedRef' = term.latch
        /\ sounds' = snd \cup term.snd
        /\ announced' = announce(ann, term.call)

\* The wait clock after an operation: it runs only while a move is pending.
waitClock(ms) == IF timers' = {} THEN 0 ELSE ms

\* --------------------------------------------------------------- operations
\* Variant of clickIgnored without the game-over test.
clickIgnoredNoWinnerCheck(index) ==
  \/ squares[index] # Null
  \/ (mode = "pve" /\ isAiThinking)
  \/ (mode = "pve" /\ ~xIsNext)

\* Variant of clickIgnored whose turn test is inverted.
clickIgnoredTurnInverted(index) ==
  \/ squares[index] # Null
  \/ calculateWinner(squares) # Null
  \/ (mode = "pve" /\ isAiThinking)
  \/ (mode = "pve" /\ xIsNext)

\* Variant of clickIgnored without the two single-player tests.
clickIgnoredNoModeCheck(index) ==
  \/ squares[index] # Null
  \/ calculateWinner(squares) # Null

\* The two early returns of handleSquareClick.
clickIgnored(index) ==
  \/ squares[index] # Null
  \/ calculateWinner(squares) # Null
  \/ (mode = "pve" /\ isAiThinking)
  \/ (mode = "pve" /\ ~xIsNext)

\* Variant of clickMark that ignores the turn.
clickMarkAlwaysX(xn) == "X"

\* next[index] = xIsNext ? 'X' : 'O'
clickMark(xn) == currentPlayer(xn)

handleSquareClick(index) ==
  IF clickIgnored(index)
  THEN /\ lastOp' = Op("click", index, FALSE)
       /\ sounds' = {}
       /\ UNCHANGED << squares, xIsNext, mode, isAiThinking, muted,
                       terminalPlayedRef, timers, effectTid, sinceMovePlayed,
                       placedBy, sinceHumanMove, announced, pureVars >>
  ELSE LET next == [squares EXCEPT ![index] = clickMark(xIsNext)]
           pm == playMove(muted, sinceMovePlayed)
       IN  /\ Render(next, ~xIsNext, mode, isAiThinking, muted,
                     terminalPlayedRef, timers, pm.snd, announced)
           /\ sinceHumanMove' = waitClock(0)
           /\ sinceMovePlayed' = pm.since
           /\ placedBy' = [placedBy EXCEPT ![index] = "human"]
           /\ lastOp' = Op("click", index, TRUE)
           /\ UNCHANGED pureVars

\* The re-check of the timer callback before it moves.
aiMoveAbandoned(prev, idx) ==
  \/ calculateWinner(prev) # Null
  \/ every(prev)
  \/ idx = Nil
  \/ prev[idx] # Null

\* The timer callback of the AI effect, for the pending timer t.
aiTimerCallback(t) ==
  \E idx \in selectAiMove(squares) :
    IF aiMoveAbandoned(squares, idx)
    THEN /\ Render(squares, TRUE, mode, FALSE, muted, terminalPlayedRef,
                   timers \ {t}, {}, announced)
         /\ sinceHumanMove' = waitClock(sinceHumanMove)
         /\ lastOp' = Op("timer", Nil, FALSE)
         /\ UNCHANGED << sinceMovePlayed, placedBy, pureVars >>
    ELSE LET next == [squares EXCEPT ![idx] = "O"]
             pm == playMove(t.muted, sinceMovePlayed)
         IN  /\ Render(next, TRUE, mode, FALSE, muted, terminalPlayedRef,
                       timers \ {t}, pm.snd, announced)
             /\ sinceHumanMove' = waitClock(sinceHumanMove)
             /\ sinceMovePlayed' = pm.since
             /\ placedBy' = [placedBy EXCEPT ![idx] = "ai"]
             /\ lastOp' = Op("timer", idx, TRUE)
             /\ UNCHANGED pureVars

\* Variant of resetGame without setXIsNext(true).
resetGameKeepsTurn ==
  /\ Render(EmptyBoard, xIsNext, mode, FALSE, muted, FALSE, timers, {}, << >>)
  /\ sinceHumanMove' = waitClock(sinceHumanMove)
  /\ placedBy' = NobodyPlaced
  /\ lastOp' = Op("reset", Nil, TRUE)
  /\ UNCHANGED << sinceMovePlayed, pureVars >>

resetGame ==
  /\ Render(EmptyBoard, TRUE, mode, FALSE, muted, FALSE, timers, {}, << >>)
  /\ sinceHumanMove' = waitClock(sinceHumanMove)
  /\ placedBy' = NobodyPlaced
  /\ lastOp' = Op("reset", Nil, TRUE)
  /\ UNCHANGED << sinceMovePlayed, pureVars >>

\* m === 'pvp' ? 'pve' : 'pvp'
otherMode(m) == IF m = "pvp" THEN "pve" ELSE "pvp"

\* Variant of toggleMode without setSquares(Array(9).fill(null)).
toggleModeKeepsBoard ==
  /\ Render(squares, TRUE, otherMode(mode), FALSE, muted, FALSE, timers, {},
            << >>)
  /\ sinceHumanMove' = waitClock(sinceHumanMove)
  /\ lastOp' = Op("toggleMode", Nil, TRUE)
  /\ UNCHANGED << sinceMovePlayed, placedBy, pureVars >>

\* Variant of toggleMode that does not clear ai-thinking.
toggleModeKeepsThinking ==
  /\ Render(EmptyBoard, TRUE, otherMode(mode), isAiThinking, muted, FALSE,
            timers, {}, << >>)
  /\ sinceHumanMove' = waitClock(sinceHumanMove)
  /\ placedBy' = NobodyPlaced
  /\ lastOp' = Op("toggleMode", Nil, TRUE)
  /\ UNCHANGED << sinceMovePlayed, pureVars >>

toggleMode ==
  /\ Render(EmptyBoard, TRUE, otherMode(mode), FALSE, muted, FALSE, timers, {},
            << >>)
  /\ sinceHumanMove' = waitClock(sinceHumanMove)
  /\ placedBy' = NobodyPlaced
  /\ lastOp' = Op("toggleMode", Nil, TRUE)
  /\ UNCHANGED << sinceMovePlayed, pureVars >>

toggleMute ==
  /\ Render(squares, xIsNext, mode, isAiThinking, ~muted, terminalPlayedRef,
            timers, {}, announced)
  /\ sinceHumanMove' = waitClock(sinceHumanMove)
  /\ lastOp' = Op("toggleMute", Nil, TRUE)
  /\ UNCHANGED << sinceMovePlayed, placedBy, pureVars >>

\* ------------------------------------------------------------------- time
\* TickMs milliseconds pass: every running clock advances. Only taken while
\* a clock is running (a timer not yet due, or the debounce window open).
elapse(ms) == IF ms > TickMs THEN ms - TickMs ELSE 0

\* The wait clock TickMs later; it stops at MaxElapsedMs.
advance(ms) == IF ms + TickMs < MaxElapsedMs THEN ms + TickMs ELSE MaxElapsedMs

Tick ==
  /\ sinceMovePlayed < DebounceMs \/ \E t \in timers : t.left > 0
  /\ timers' = {[t EXCEPT !.left = elapse(t.left)] : t \in timers}
  /\ sinceMovePlayed' = DebounceMs - elapse(DebounceMs - sinceMovePlayed)
  /\ sinceHumanMove' = waitClock(advance(sinceHumanMove))
  /\ sounds' = {}
  /\ lastOp' = Op("tick", Nil, TRUE)
  /\ UNCHANGED << squares, xIsNext, mode, isAiThinking, muted,
                  terminalPlayedRef, effectTid, placedBy, announced,
                  pureVars >>

\* ------------------------------------------------------------ the program
SquareClick == \E index \in Cells : handleSquareClick(index)

TimerFires == \E t \in timers : t.left = 0 /\ aiTimerCallback(t)

Next ==
  \/ SquareClick
  \/ TimerFires
  \/ resetGame
  \/ toggleMode
  \/ toggleMute
  \/ Tick

Spec == Init /\ [][Next]_vars

\* ------------------------------------------- the pure functions, on inputs
InitPure ==
  /\ squares \in AllBoards
  /\ xIsNext = TRUE
  /\ mode = "pvp"
  /\ isAiThinking = FALSE
  /\ muted = FALSE
  /\ terminalPlayedRef = FALSE
  /\ timers = {}
  /\ effectTid = NoTid
  /\ sinceMovePlayed = DebounceMs
  /\ sounds = {}
  /\ lastOp = [op |-> "init", index |-> Nil, accepted |-> TRUE, pend |-> FALSE,
               was |-> "in-progress"]
  /\ placedBy = NobodyPlaced
  /\ sinceHumanMove = 0
  /\ announced = << >>
  /\ evalOut = "unset"
  /\ aiIndex = Nil

Evaluate ==
  /\ evalOut' = outcome(squares)
  /\ lastOp' = Op("evaluate", Nil, TRUE)
  /\ UNCHANGED << squares, xIsNext, mode, isAiThinking, muted,
                  terminalPlayedRef, timers, effectTid, sinceMovePlayed,
                  sounds, placedBy, sinceHumanMove, announced, aiIndex >>

SelectMove ==
  /\ \E idx \in selectAiMove(squares) : aiIndex' = idx
  /\ lastOp' = Op("selectAiMove", Nil, TRUE)
  /\ UNCHANGED << squares, xIsNext, mode, isAiThinking, muted,
                  terminalPlayedRef, timers, effectTid, sinceMovePlayed,
                  sounds, placedBy, sinceHumanMove, announced, evalOut >>

NextPure == Evaluate \/ SelectMove

SpecPure == InitPure /\ [][NextPure]_vars

\* =================================================================== claims
\* The 8 lines of the grid as sets of cells: 3 rows, 3 columns, 2 diagonals.
GridLines ==
  {{3 * r, 3 * r + 1, 3 * r + 2} : r \in 0 .. 2}
    \cup {{c, c + 3, c + 6} : c \in 0 .. 2}
    \cup {{0, 4, 8}, {2, 4, 6}}

HasLine(sq, m) == \E l \in GridLines : \A i \in l : sq[i] = m

NoLine(sq) == \A m \in Marks : ~HasLine(sq, m)

Full(sq) == \A i \in Cells : sq[i] \in Marks

Count(sq, m) == Cardinality({i \in Cells : sq[i] = m})

Evaluated == lastOp.op = "evaluate"

\* C1 (as stated): for every board, a completed line of a mark makes the
\* outcome a win for that mark; no line and a full board is a draw; no line
\* and an empty cell is in-progress.
C1_AnyCompletedLineWins ==
  Evaluated =>
    /\ \A m \in Marks : HasLine(squares, m) => evalOut = m
    /\ (NoLine(squares) /\ Full(squares)) => evalOut = "draw"
    /\ (NoLine(squares) /\ ~Full(squares)) => evalOut = "in-progress"

\* The position in scan order (rows, columns, diagonals) of line l.
ScanPos(l) == CHOOSE k \in 1 .. Len(lines) : {lines[k][n] : n \in 1 .. 3} = l

Completed(sq) == {l \in GridLines : \E m \in Marks : \A i \in l : sq[i] = m}

\* C1 (amended): for every board on which at most one mark has a completed
\* line, a completed line makes the outcome a win for that mark (also on a
\* full board); when both marks have one, the outcome is the mark of the
\* completed line that comes first in scan order; no line and a full board
\* is a draw; no line and an empty cell is in-progress.
C1_FirstCompletedLineWins ==
  Evaluated =>
    /\ \A m \in Marks :
         (HasLine(squares, m) /\ \A o \in Marks \ {m} : ~HasLine(squares, o))
           => evalOut = m
    /\ \A l \in Completed(squares) :
         (\A o \in Completed(squares) : ScanPos(l) <= ScanPos(o))
           => \A i \in l : evalOut = squares[i]
    /\ (NoLine(squares) /\ Full(squares)) => evalOut = "draw"
    /\ (NoLine(squares) /\ ~Full(squares)) => evalOut = "in-progress"

\* Both marks have a completed line and the later-scanned X line loses.
C1_Witness ==
  /\ Evaluated
  /\ HasLine(squares, "X")
  /\ HasLine(squares, "O")
  /\ evalOut = "O"

Selected == lastOp.op = "selectAiMove"

\* C6: selectMove returns none or the index of an empty cell of the board,
\* and none exactly when the board has no empty cell.
C6_SelectsEmptyCellOrNone ==
  Selected =>
    /\ aiIndex = Nil \/ (aiIndex \in Cells /\ squares[aiIndex] = Null)
    /\ aiIndex = Nil <=> Full(squares)

\* A cell was selected on a board whose center and first corner are taken.
C6_Witness ==
  /\ Selected
  /\ squares[4] # Null
  /\ squares[0] # Null
  /\ aiIndex \in Cells

Priority == <<4, 0, 2, 6, 8, 1, 3, 5, 7>>

FirstEmptyByPriority(sq) ==
  Priority[CHOOSE k \in 1 .. Len(Priority) :
             /\ sq[Priority[k]] = Null
             /\ \A j \in 1 .. (k - 1) : sq[Priority[j]] # Null]

\* C7: on every board with an empty cell selectMove returns the first empty
\* index of 4, 0, 2, 6, 8, 1, 3, 5, 7; it has one possible result and the
\* random fallback is never taken.
C7_SelectsByFixedPriority ==
  ~Full(squares) =>
    /\ selectAiMove(squares) = {FirstEmptyByPriority(squares)}
    /\ best(squares) # Nil
    /\ Selected => aiIndex = FirstEmptyByPriority(squares)

\* An edge was selected: center and all corners are taken.
C7_Witness ==
  /\ Selected
  /\ \A i \in {4, 0, 2, 6, 8} : squares[i] # Null
  /\ aiIndex = 3

\* -------------------------------------------------------- the game, claims
\* C2: in every reachable state, in either mode, the number of X marks minus
\* the number of O marks is 0 or 1.
C2_XLeadsByAtMostOne ==
  Count(squares, "X") - Count(squares, "O") \in {0, 1}

\* A full board in single-player mode, reached while muted.
C2_Witness ==
  /\ mode = "pve"
  /\ muted
  /\ Count(squares, "X") = 5
  /\ Count(squares, "O") = 4

\* The step is a call of handleSquareClick(i).
ClickStep(i) == lastOp'.op = "click" /\ lastOp'.index = i

\* C3: handleSquareClick on an occupied cell, or when the outcome is already
\* won or draw, changes nothing in either mode: not the board, the turn, the
\* mode, ai-thinking, the latch or the pending timers, and it starts no move
\* sound.
C3_RejectedClickIsNoOp ==
  [][\A i \in Cells :
       (ClickStep(i) /\ (squares[i] # Null \/ outcome(squares) # "in-progress"))
         => /\ UNCHANGED << squares, xIsNext, mode, isAiThinking,
                            terminalPlayedRef, timers, effectTid >>
            /\ "move" \notin sounds'
            /\ ~lastOp'.accepted]_vars

\* A click on an empty cell of a won board was rejected.
C3_Witness ==
  /\ lastOp.op = "click"
  /\ ~lastOp.accepted
  /\ outcome(squares) \in Marks
  /\ squares[lastOp.index] = Null

\* The conditions under which a click is to be accepted.
Acceptable(i) ==
  /\ squares[i] = Null
  /\ outcome(squares) = "in-progress"
  /\ mode = "pve" => (xIsNext /\ ~isAiThinking)

CenterOnly == [EmptyBoard EXCEPT ![4] = "X"]

\* C4: an accepted click writes the mark of the turn indicator into exactly
\* that cell, leaves the other cells and the mode unchanged and flips the
\* turn; in two-player mode a click on cell 4 of the empty board places X
\* with O to move, and a second click on cell 4 changes nothing.
C4_AcceptedClickPlacesTurnMark ==
  [][/\ \A i \in Cells :
          (ClickStep(i) /\ Acceptable(i))
            => /\ squares' = [squares EXCEPT ![i] = IF xIsNext THEN "X" ELSE "O"]
               /\ mode' = mode
               /\ xIsNext' = ~xIsNext
               /\ lastOp'.accepted
     /\ (ClickStep(4) /\ mode = "pvp" /\ squares = EmptyBoard)
          => (squares' = CenterOnly /\ ~xIsNext')
     /\ (ClickStep(4) /\ mode = "pvp" /\ squares = CenterOnly)
          => (squares' = CenterOnly /\ ~xIsNext' /\ ~lastOp'.accepted)]_vars

\* The second click on the center of a two-player game was rejected.
C4_Witness ==
  /\ mode = "pvp"
  /\ lastOp.op = "click"
  /\ lastOp.index = 4
  /\ ~lastOp.accepted
  /\ squares = CenterOnly
  /\ ~xIsNext

\* C5: in single-player mode a click while the turn is O's or while
\* ai-thinking is true changes neither board nor turn, an accepted click
\* writes X, a timer callback writes nothing but one O, and every O on the
\* board was written by a timer callback (every human cell holds X).
C5_HumanIsXComputerIsO ==
  /\ [](mode = "pve" =>
          \A i \in Cells :
            /\ squares[i] = "O" => placedBy[i] = "ai"
            /\ placedBy[i] = "human" => squares[i] = "X")
  /\ [][\A i \in Cells :
          /\ (ClickStep(i) /\ mode = "pve" /\ (~xIsNext \/ isAiThinking))
                => UNCHANGED << squares, xIsNext >>
          /\ (ClickStep(i) /\ mode = "pve" /\ lastOp'.accepted)
                => squares' = [squares EXCEPT ![i] = "X"]
          /\ (lastOp'.op = "timer" /\ lastOp'.index = i /\ lastOp'.accepted)
                => (squares[i] = Null /\ squares' = [squares EXCEPT ![i] = "O"])
          /\ (lastOp'.op = "timer" /\ ~lastOp'.accepted)
                => squares' = squares]_vars

\* A click on an empty cell was rejected during the computer's turn, with a
\* computer mark already on the board.
C5_Witness ==
  /\ mode = "pve"
  /\ lastOp.op = "click"
  /\ ~lastOp.accepted
  /\ isAiThinking
  /\ ~xIsNext
  /\ squares[lastOp.index] = Null
  /\ Count(squares, "O") >= 1

\* C8: from any reachable state resetGame yields an empty board with X to
\* move, ai-thinking false and the latch false, and leaves the mode unchanged.
C8_ResetYieldsFreshGame ==
  [][lastOp'.op = "reset"
       => /\ squares' = EmptyBoard
          /\ xIsNext'
          /\ ~isAiThinking'
          /\ ~terminalPlayedRef'
          /\ mode' = mode]_vars

\* A drawn game was reset.
C8_Witness ==
  /\ lastOp.op = "reset"
  /\ lastOp.was = "draw"
  /\ squares = EmptyBoard

\* C9: from any reachable state toggleMode switches to the other mode and
\* resets: empty board, X to move, ai-thinking false, latch false; and in
\* single-player mode the first mark of a game is an X written by a click.
C9_ToggleModeSwitchesAndResets ==
  [][/\ lastOp'.op = "toggleMode"
          => /\ mode' \in {"pvp", "pve"} \ {mode}
             /\ squares' = EmptyBoard
             /\ xIsNext'
             /\ ~isAiThinking'
             /\ ~terminalPlayedRef'
     /\ (mode' = "pve" /\ squares = EmptyBoard /\ squares' # EmptyBoard)
          => /\ lastOp'.op = "click"
             /\ \E i \in Cells : squares' = [EmptyBoard EXCEPT ![i] = "X"]]_vars

\* A won two-player game was switched to single-player mode.
C9_Witness ==
  /\ lastOp.op = "toggleMode"
  /\ lastOp.was = "X"
  /\ mode = "pve"
  /\ squares = EmptyBoard

\* C10: a reset or mode toggle while a computer move is pending cancels it:
\* afterwards no timer is pending, the board is empty, X is to move and
\* ai-thinking is false; a timer is pending only for an unanswered human move
\* of the current game; and neither the passage of time nor a timer callback
\* changes a fresh board, its turn or ai-thinking.
C10_ResetCancelsPendingMove ==
  /\ [](lastOp.op \in {"reset", "toggleMode"}
          => /\ timers = {}
             /\ squares = EmptyBoard
             /\ xIsNext
             /\ ~isAiThinking)
  /\ [](timers # {} => (squares # EmptyBoard /\ ~xIsNext /\ mode = "pve"))
  /\ [][(squares = EmptyBoard /\ lastOp'.op \in {"tick", "timer"})
          => UNCHANGED << squares, xIsNext, isAiThinking >>]_vars

\* The mode was toggled while a computer move was pending.
C10_Witness ==
  /\ lastOp.op = "toggleMode"
  /\ lastOp.pend
  /\ mode = "pvp"
  /\ timers = {}

\* The cells a participant wrote.
PlacedBy(who) == {i \in Cells : placedBy[i] = who}

\* C17: in every reachable state at most one mark has a completed line, so
\* the winner is the mark of every completed line, whichever is scanned first.
C17_AtMostOneMarkHasALine ==
  /\ ~(HasLine(squares, "X") /\ HasLine(squares, "O"))
  /\ \A m \in Marks : HasLine(squares, m) => calculateWinner(squares) = m

\* The computer completed a line of O's.
C17_Witness ==
  /\ mode = "pve"
  /\ HasLine(squares, "O")
  /\ Count(squares, "X") >= 3

\* C18: ai-thinking is true only in single-player mode, on O's turn, with the
\* outcome in progress and a scheduled computer move outstanding; it is false
\* whenever X is to move or the mode is two-player.
C18_ThinkingOnlyWhileMovePending ==
  /\ isAiThinking
       => /\ mode = "pve"
          /\ ~xIsNext
          /\ outcome(squares) = "in-progress"
          /\ timers # {}
  /\ (xIsNext \/ mode = "pvp") => ~isAiThinking

\* The computer is thinking and its move is due.
C18_Witness ==
  /\ isAiThinking
  /\ \E t \in timers : t.left = 0
  /\ Count(squares, "O") = 2

\* C19: at most one scheduled computer move is outstanding, also after the
\* scheduling effect re-ran, and the computer never wrote more marks than the
\* human.
C19_AtMostOnePendingMove ==
  /\ Cardinality(timers) <= 1
  /\ Cardinality(PlacedBy("ai")) <= Cardinality(PlacedBy("human"))

\* A mute toggle during the delay replaced the pending timer by a new one.
C19_Witness ==
  /\ lastOp.op = "toggleMute"
  /\ lastOp.pend
  /\ sinceHumanMove > 0
  /\ \E t \in timers : t.left = AiDelayMs

\* C20: X is to move exactly when the board holds as many X's as O's, and O
\* is to move exactly when X has one more, in terminal states too.
C20_TurnAgreesWithBoard ==
  /\ xIsNext <=> Count(squares, "X") = Count(squares, "O")
  /\ ~xIsNext <=> Count(squares, "X") = Count(squares, "O") + 1

\* The computer's move ended the game and the turn went back to X.
C20_Witness ==
  /\ lastOp.op = "timer"
  /\ lastOp.accepted
  /\ outcome(squares) = "O"
  /\ xIsNext

\* The outcome is won or draw.
Terminal(sq) == outcome(sq) # "in-progress"

\* The terminal-sound helper an outcome calls for.
SoundOf(sq) == IF calculateWinner(sq) # Null THEN "win" ELSE "draw"

\* C13: in every game that reaches a terminal outcome the terminal sound
\* helper is called exactly once, in the step that makes the outcome won or
\* draw (playWin for a win, playDraw for a draw; it is audible unless muted),
\* and never again while the outcome stays terminal, whatever mute toggles
\* and rejected clicks follow; the latch goes from set to cleared only
\* through resetGame or toggleMode. (sounds holds what the last operation
\* started, lastOp.was the outcome it found.)
C13_TerminalSoundExactlyOnce ==
  /\ Terminal(squares)
       => /\ announced = << SoundOf(squares) >>
          /\ terminalPlayedRef
          /\ sounds \cap {"win", "draw"}
               = IF lastOp.was = "in-progress" /\ ~muted
                 THEN {SoundOf(squares)} ELSE {}
  /\ ~Terminal(squares)
       => /\ announced = << >>
          /\ ~terminalPlayedRef
          /\ sounds \cap {"win", "draw"} = {}
          /\ lastOp.was # "in-progress"
               => lastOp.op \in {"reset", "toggleMode"}

\* Sound was switched on in a drawn game: the effect re-ran and stayed silent.
C13_Witness ==
  /\ lastOp.op = "toggleMute"
  /\ lastOp.was = "draw"
  /\ ~muted
  /\ announced = << "draw" >>
  /\ sounds = {}

\* C14: a computer move is scheduled or committed only for a committed human
\* move of the same game that is not yet answered: a timer is pending only
\* while the human has written one cell more than the computer, a commit adds
\* one computer mark to such a board, and the first mark on an empty board is
\* written by a click.
C14_ComputerMovesOnlyAfterHumanMove ==
  /\ [](timers # {}
          => /\ mode = "pve"
             /\ Cardinality(PlacedBy("human"))
                  = Cardinality(PlacedBy("ai")) + 1)
  /\ [][(lastOp'.op = "timer" /\ lastOp'.accepted)
          => /\ Cardinality(PlacedBy("human"))
                  = Cardinality(PlacedBy("ai")) + 1
             /\ Cardinality(PlacedBy("human")')
                  = Cardinality(PlacedBy("ai")')]_vars
  /\ [][(squares = EmptyBoard /\ squares' # EmptyBoard)
          => (lastOp'.op = "click" /\ PlacedBy("ai")' = {})]_vars

\* The computer answered the human's second move.
C14_Witness ==
  /\ lastOp.op = "timer"
  /\ lastOp.accepted
  /\ Cardinality(PlacedBy("ai")) = 2
  /\ Cardinality(PlacedBy("human")) = 2

\* C16: once the outcome is terminal no computer move is pending and
\* ai-thinking is false, in single-player mode too, and no step other than
\* resetGame or toggleMode changes a cell.
C16_TerminalBoardIsFrozen ==
  /\ [](Terminal(squares) => (timers = {} /\ ~isAiThinking))
  /\ [][(Terminal(squares) /\ squares' # squares)
          => lastOp'.op \in {"reset", "toggleMode"}]_vars

\* In single-player mode the human's move won and a later click was rejected.
C16_Witness ==
  /\ mode = "pve"
  /\ outcome(squares) = "X"
  /\ ~xIsNext
  /\ lastOp.op = "click"
  /\ ~lastOp.accepted
  /\ lastOp.was = "X"

\* C12: the computer's move is due exactly 300 ms after the human move it
\* answers was accepted, whatever happened during the delay: at every moment
\* of the wait, the time waited and the time left on the timer add up to
\* 300 ms.
C12_MoveDueAfterExactly300ms ==
  \A t \in timers : sinceHumanMove + t.left = AiDelayMs

\* ------------------------------------------- the timer callback on its own
\* The boards that agree with a turn indicator.
boardsOfTurn(xn) ==
  {b \in AllBoards :
     Count(b, "X") = Count(b, "O") + (IF xn THEN 0 ELSE 1)}

\* The timeout callback as a unit: it is due, and it finds any board and turn
\* that agree with each other, so that each branch of its re-validation is
\* taken. (From Init the callback only ever finds a board that passes the
\* re-validation.)
InitCallback ==
  /\ xIsNext \in BOOLEAN
  /\ squares \in boardsOfTurn(xIsNext)
  /\ mode = "pve"
  /\ isAiThinking = TRUE
  /\ muted \in BOOLEAN
  /\ terminalPlayedRef = Terminal(squares)
  /\ announced = IF Terminal(squares) THEN << SoundOf(squares) >> ELSE << >>
  /\ timers = {[id |-> 1, left |-> 0, muted |-> muted]}
  /\ effectTid = 1
  /\ sinceMovePlayed = DebounceMs
  /\ sinceHumanMove = AiDelayMs
  /\ sounds = {}
  /\ lastOp = [op |-> "tick", index |-> Nil, accepted |-> TRUE,
               pend |-> TRUE, was |-> outcome(squares)]
  /\ placedBy = [i \in Cells |-> IF squares[i] = "X" THEN "human"
                                 ELSE IF squares[i] = "O" THEN "ai"
                                 ELSE "none"]
  /\ evalOut = "unset"
  /\ aiIndex = Nil

NextCallback == TimerFires

SpecCallback == InitCallback /\ [][NextCallback]_vars

InitLive ==
  /\ squares = EmptyBoard
  /\ xIsNext = TRUE
  /\ mode = "pve"
  /\ isAiThinking = FALSE
  /\ muted \in BOOLEAN
  /\ terminalPlayedRef = FALSE
  /\ timers = {}
  /\ effectTid = NoTid
  /\ sinceMovePlayed = DebounceMs
  /\ sounds = {}
  /\ lastOp = [op |-> "toggleMode", index |-> Nil, accepted |-> TRUE,
               pend |-> FALSE, was |-> "in-progress"]
  /\ placedBy = NobodyPlaced
  /\ sinceHumanMove = 0
  /\ announced = << >>
  /\ evalOut = "unset"
  /\ aiIndex = Nil

\* Every operation but the mode toggle.
NextLive ==
  \/ SquareClick
  \/ TimerFires
  \/ resetGame
  \/ toggleMute
  \/ Tick

\* Time passes, and the event loop runs a callback that is due.
SpecLive ==
  InitLive /\ [][NextLive]_vars /\ WF_vars(Tick) /\ WF_vars(TimerFires)

\* An accepted human move left the outcome in progress and is not answered.
AwaitingComputer == mode = "pve" /\ ~xIsNext /\ ~Terminal(squares)

\* The computer's move was committed.
Committed == lastOp.op = "timer" /\ lastOp.accepted

\* C11: in single-player mode every accepted human move that leaves the
\* outcome in progress is followed, unless a reset or mode toggle intervenes,
\* by a committed computer move; the commit writes O into the first empty
\* cell of the priority order (cell 4 after the human opened at cell 0),
\* gives the turn back to X and clears ai-thinking.
C11_ComputerMoveEventuallyCommits ==
  /\ AwaitingComputer ~> (Committed \/ lastOp.op \in {"reset", "toggleMode"})
  /\ [][(lastOp'.op = "timer" /\ lastOp'.accepted)
          => /\ squares'
                  = [squares EXCEPT ![FirstEmptyByPriority(squares)] = "O"]
             /\ squares[FirstEmptyByPriority(squares)] = Null
             /\ xIsNext'
             /\ ~isAiThinking']_vars
  /\ [][(squares = [EmptyBoard EXCEPT ![0] = "X"] /\ lastOp'.op = "timer")
          => squares' = [EmptyBoard EXCEPT ![0] = "X", ![4] = "O"]]_vars

=============================================================================
